---- MODULE Spec2Model ----
(***************************************************************************)
(* Exam-taking engine of the online exam system: paper generation, the     *)
(* server-side timer, the answer ledger, evaluation and ranking, as the    *)
(* request handlers of app/api/routes/exam_session.py drive                *)
(* ExamEngineService inside one get_db transaction per request.            *)
(*                                                                         *)
(* The committed database is the state.  A request is a transaction: its   *)
(* first step loads rows into the ORM session (later queries of the same   *)
(* session keep the attributes of a row already loaded), its last step     *)
(* flushes and commits, or rolls everything back when the handler raises.  *)
(* Times are whole seconds; marks are whole mark units.                    *)
(***************************************************************************)
EXTENDS Integers, Sequences, FiniteSets, Bags, TLC

\* ------------------------------------------------------------------ bounds
\* requests whose transactions may be open at the same time
MaxInFlight == 2
\* seconds the clock runs on after the last paper has expired
MaxLate == 0
\* entries of one bulk save
MaxBulk == 2
\* entries of one bulk save where bulk saves mix with all other requests
MaxBulkSeq == 1
\* largest negative_marks of a question of the evaluation-only bank
MaxNegativeMarks == 3

\* ------------------------------------------------------------- enumerations
NOT_STARTED == "NOT_STARTED"
IN_PROGRESS == "IN_PROGRESS"
SUBMITTED == "SUBMITTED"
AUTO_SUBMITTED == "AUTO_SUBMITTED"
EVALUATED == "EVALUATED"

DRAFT == "DRAFT"
SCHEDULED == "SCHEDULED"
ACTIVE == "ACTIVE"
COMPLETED == "COMPLETED"
CANCELLED == "CANCELLED"

ExamStatuses == {DRAFT, SCHEDULED, ACTIVE, COMPLETED, CANCELLED}

TerminalStatuses == {SUBMITTED, AUTO_SUBMITTED, EVALUATED}

StatusRank(st) ==
    CASE st = NOT_STARTED -> 0
      [] st = IN_PROGRESS -> 1
      [] st = SUBMITTED -> 2
      [] st = AUTO_SUBMITTED -> 2
      [] st = EVALUATED -> 3

\* ------------------------------------------------------------------ strings
\* An answer string is a sequence of characters; NULL is the SQL null.
NULL == <<"null">>
EmptyString == <<>>
OptionKeys == <<"A", "B">>

Lower(c) == CASE c = "A" -> "a" [] c = "B" -> "b" [] OTHER -> c

LowerStr(s) == [i \in 1 .. Len(s) |-> Lower(s[i])]

RECURSIVE LStrip(_)
LStrip(s) == IF s # <<>> /\ Head(s) = " " THEN LStrip(Tail(s)) ELSE s

RECURSIVE RStrip(_)
RStrip(s) ==
    IF s # <<>> /\ s[Len(s)] = " " THEN RStrip(SubSeq(s, 1, Len(s) - 1)) ELSE s

Strip(s) == RStrip(LStrip(s))

\* a test that takes every stored value for an answer
AlwaysTruthy(a) == TRUE

\* Python truthiness of Optional[str]: None and "" are falsy
Truthy(a) == a # NULL /\ a # EmptyString

CheckAnswer(question, selected_answer) ==
    LowerStr(Strip(question.correct_answer)) = LowerStr(Strip(selected_answer))

Max(a, b) == IF a >= b THEN a ELSE b

\* ------------------------------------------------------------------- state
VARIABLES
    now,        \* server wall clock, seconds
    capacity,   \* how many requests the deployment serves at a time
    exam,       \* the Exam row
    questions,  \* the live question bank: question id -> Question row
    assigned,   \* ExamAssignment rows: the students assigned
    papers,     \* StudentExamPaper rows with their StudentResponse rows, per student, in insertion order
    results,    \* Result rows, in insertion order
    session,    \* the ExamSession row of the exam
    inflight,   \* bag of requests whose transaction is open
    last        \* the reply of the request that completed last

vars == <<now, capacity, exam, questions, assigned, papers, results, session, inflight, last>>

\* ------------------------------------------------------- question selector
\* All sequences of k distinct elements of S: what random.sample (and a later
\* random.shuffle) can return.
RECURSIVE Samples(_, _)
Samples(S, k) ==
    IF k = 0 THEN {<<>>}
    ELSE UNION {{<<x>> \o t : t \in Samples(S \ {x}, k - 1)} : x \in S}

ActiveQuestions(bank) == {q \in DOMAIN bank : bank[q].is_active}

\* a selection that draws every position independently, repeats included
SelectWithRepeats(ex, bank) == [1 .. ex.total_questions -> ActiveQuestions(bank)]

\* _select_questions without a difficulty quota: the empty set stands for the
\* HTTP 400 "Not enough questions available".
SelectQuestions(ex, bank) ==
    IF Cardinality(ActiveQuestions(bank)) < ex.total_questions
    THEN {}
    ELSE Samples(ActiveQuestions(bank), ex.total_questions)

\* The orders random.shuffle can leave the option keys in.
OptionOrders(keys, shuffle_options) ==
    IF shuffle_options
    THEN {[i \in 1 .. Len(keys) |-> keys[p[i]]] : p \in Permutations(1 .. Len(keys))}
    ELSE {keys}

\* _build_paper_data: the frozen snapshot, one entry per selected question.
BuildPaperData(qs, bank, orders) ==
    [i \in 1 .. Len(qs) |->
        [question_id |-> qs[i],
         sequence |-> i,
         marks |-> bank[qs[i]].marks,
         negative_marks |-> bank[qs[i]].negative_marks,
         options_order |-> orders[i]]]

\* The snapshots generate_paper can produce for the exam.
PaperSnapshots(ex, bank) ==
    UNION {
        {BuildPaperData(qs, bank, orders) :
            orders \in {o \in [1 .. Len(qs) -> OptionOrders(OptionKeys, ex.shuffle_options)] : TRUE}}
        : qs \in SelectQuestions(ex, bank)}

SnapshotQuestionIds(paper_data) == {paper_data[i].question_id : i \in 1 .. Len(paper_data)}

\* StudentResponse rows as generate_paper creates them: all fields empty.
EmptyResponse ==
    [selected_answer |-> NULL, is_marked_for_review |-> FALSE,
     is_correct |-> "null", marks_obtained |-> <<>>]

NewResponses(paper_data) == [q \in SnapshotQuestionIds(paper_data) |-> EmptyResponse]

\* ------------------------------------------------------- evaluation engine
Difficulties == {"EASY", "MEDIUM", "HARD"}

\* One pass of the loop of _evaluate_paper over one response row.
ScoreResponse(bank, q, response) ==
    IF q \notin DOMAIN bank
    THEN [row |-> response, attempted |-> 0, correct |-> 0, wrong |-> 0, marks |-> 0]
    ELSE IF Truthy(response.selected_answer)
    THEN IF CheckAnswer(bank[q], response.selected_answer)
         THEN [row |-> [response EXCEPT !.is_correct = "true",
                                        !.marks_obtained = <<bank[q].marks>>],
               attempted |-> 1, correct |-> 1, wrong |-> 0, marks |-> bank[q].marks]
         ELSE [row |-> [response EXCEPT !.is_correct = "false",
                                        !.marks_obtained = <<0 - bank[q].negative_marks>>],
               attempted |-> 1, correct |-> 0, wrong |-> 1,
               marks |-> 0 - bank[q].negative_marks]
    ELSE [row |-> [response EXCEPT !.is_correct = "null", !.marks_obtained = <<0>>],
          attempted |-> 0, correct |-> 0, wrong |-> 0, marks |-> 0]

RECURSIVE SumOver(_, _)
SumOver(S, f) ==
    IF S = {} THEN 0
    ELSE LET x == CHOOSE y \in S : TRUE IN f[x] + SumOver(S \ {x}, f)

\* round(n / d, 0) as Python rounds: to nearest, ties to even (d > 0)
RoundHalfEven(n, d) ==
    LET q == n \div d
        r == n % d
    IN  IF 2 * r < d THEN q
        ELSE IF 2 * r > d THEN q + 1
        ELSE IF q % 2 = 0 THEN q ELSE q + 1

\* percentage, in hundredths of a percent (round(percentage, 2))
Percentage(total_marks, ex) ==
    IF ex.total_marks > 0 THEN RoundHalfEven(total_marks * 10000, ex.total_marks) ELSE 0

\* the sum as it is, without the floor at zero
RawMarks(total_marks) == total_marks

MarksObtained(total_marks) == Max(0, total_marks)

IsPassed(total_marks, ex) == total_marks >= ex.passing_marks

DifficultyScores(bank, responses, scored) ==
    [d \in Difficulties |->
        LET qs == {q \in DOMAIN responses : q \in DOMAIN bank /\ bank[q].difficulty = d} IN
        [correct |-> SumOver(qs, [q \in qs |-> scored[q].correct]),
         total |-> SumOver(qs, [q \in qs |-> scored[q].attempted]),
         marks |-> SumOver(qs, [q \in qs |-> scored[q].correct * bank[q].marks])]]

\* _evaluate_paper up to the Result row (rank still unset) and the scored rows.
EvaluatePaper(ex, bank, s, p, responses, evaluated_at) ==
    LET qs == DOMAIN responses
        scored == [q \in qs |-> ScoreResponse(bank, q, responses[q])]
        total_marks == SumOver(qs, [q \in qs |-> scored[q].marks])
    IN  [responses |-> [q \in qs |-> scored[q].row],
         result |->
            [student_id |-> s,
             paper_id |-> p,
             total_questions |-> ex.total_questions,
             attempted |-> SumOver(qs, [q \in qs |-> scored[q].attempted]),
             correct |-> SumOver(qs, [q \in qs |-> scored[q].correct]),
             wrong |-> SumOver(qs, [q \in qs |-> scored[q].wrong]),
             total_marks |-> ex.total_marks,
             marks_obtained |-> MarksObtained(total_marks),
             percentage |-> Percentage(total_marks, ex),
             is_passed |-> IsPassed(total_marks, ex),
             rank |-> 0,
             difficulty_wise_score |-> DifficultyScores(bank, responses, scored),
             evaluated_at |-> evaluated_at]]

\* ---------------------------------------------------------- rank calculator
\* an order by marks ascending that ignores the evaluation time
PrecedesAscending(a, b) == a.marks_obtained < b.marks_obtained

\* ORDER BY marks_obtained DESC, evaluated_at ASC: rows equal on both keys
\* come in an order the database leaves open.
Precedes(a, b) ==
    \/ a.marks_obtained > b.marks_obtained
    \/ a.marks_obtained = b.marks_obtained /\ a.evaluated_at < b.evaluated_at

RankOrders(rs) ==
    {o \in Permutations(1 .. Len(rs)) :
        \A i, j \in 1 .. Len(rs) : i < j => ~Precedes(rs[o[j]], rs[o[i]])}

\* _calculate_ranks: rank = 1-based position in the order; o[k] is the row at position k.
CalculateRanks(rs, o) ==
    [i \in 1 .. Len(rs) |->
        [rs[i] EXCEPT !.rank = CHOOSE k \in 1 .. Len(rs) : o[k] = i]]

\* --------------------------------------------------------- database helpers
\* _get_existing_paper: the paper with the highest attempt_number, 0 when none.
GetExistingPaper(ps) ==
    IF ps = <<>> THEN 0
    ELSE CHOOSE i \in 1 .. Len(ps) :
            \A j \in 1 .. Len(ps) :
                \/ ps[j].attempt_number < ps[i].attempt_number
                \/ ps[j].attempt_number = ps[i].attempt_number /\ j <= i

\* _get_attempt_count: count of the student's paper rows for the exam.
GetAttemptCount(ps) == Len(ps)

\* a table without uq_student_exam_attempt
NoAttemptConstraint(ps, attempt_number) == FALSE

\* uq_student_exam_attempt: a second row with the same attempt number is refused.
AttemptConstraintViolated(ps, attempt_number) ==
    \E i \in 1 .. Len(ps) : ps[i].attempt_number = attempt_number

\* a table without uq_exam_student_result
NoResultConstraint(rs, s, p) == FALSE

\* uq_exam_student_result: a second Result of the same paper is refused.
ResultConstraintViolated(rs, s, p) ==
    \E i \in 1 .. Len(rs) : rs[i].student_id = s /\ rs[i].paper_id = p

\* uq_exam_student_assignment: a second assignment of the student is refused.
AssignmentConstraintViolated(asg, s) == s \in asg

\* _get_result: index of the Result of paper p of student s, 0 when none.
GetResult(rs, s, p) ==
    IF \E i \in 1 .. Len(rs) : rs[i].student_id = s /\ rs[i].paper_id = p
    THEN CHOOSE i \in 1 .. Len(rs) : rs[i].student_id = s /\ rs[i].paper_id = p
    ELSE 0

\* a recompute that hands the full duration back
TimeRemainingRefilled(ex, started_at, t) == ex.duration_seconds

\* _update_time_remaining on whole seconds (int() changes nothing there).
TimeRemaining(ex, started_at, t) == Max(0, ex.duration_seconds - (t - started_at))

\* a request that trusts the stored time_remaining_seconds
KeepTimeRemaining(ex, paper, t) == paper.time_remaining_seconds

\* The paper's time_remaining_seconds in the session after _update_time_remaining.
UpdateTimeRemaining(ex, paper, t) ==
    IF paper.started_at # <<>> /\ paper.status = IN_PROGRESS
    THEN TimeRemaining(ex, paper.started_at[1], t)
    ELSE paper.time_remaining_seconds

\* a session row that is never counted on
SessionUncounted(ses, action) == ses

\* _update_session_stats: counts only while an active session row exists.
UpdateSessionStats(ses, action) ==
    IF ses.is_active
    THEN IF action = "started"
         THEN [ses EXCEPT !.students_started = @ + 1]
         ELSE [ses EXCEPT !.students_submitted = @ + 1]
    ELSE ses

\* The status part of _validate_exam_available: the exam status it flushes.
AdvanceExamStatus(ex, t) ==
    IF ex.status \in {DRAFT, SCHEDULED}
    THEN IF t >= ex.start_time /\ t < ex.end_time THEN ACTIVE
         ELSE IF t >= ex.end_time THEN COMPLETED
         ELSE ex.status
    ELSE IF ex.status = ACTIVE /\ t >= ex.end_time THEN COMPLETED
    ELSE ex.status

\* a check of the stored status alone, without the clock
AvailableByStatus(ex, t) == ex.status \in {SCHEDULED, ACTIVE}

\* _validate_exam_available passes (raises none of its three HTTP 400s).
ExamAvailable(ex, t) ==
    /\ AdvanceExamStatus(ex, t) \in {SCHEDULED, ACTIVE}
    /\ ~(t < ex.start_time)
    /\ ~(t > ex.end_time)

\* ----------------------------------------------------------------- requests
Request(op, s, pc, p, st, tr, dirty, t0, attempt, assign) ==
    [op |-> op, s |-> s, pc |-> pc, p |-> p, st |-> st, tr |-> tr, dirty |-> dirty,
     t0 |-> t0, attempt |-> attempt, assign |-> assign, entries |-> <<>>, seen |-> <<>>]

Reply(op, s, outcome) ==
    [op |-> op, s |-> s, outcome |-> outcome, p |-> 0, status |-> "",
     time_remaining_seconds |-> 0, questions |-> <<>>, result |-> <<>>, saved_count |-> 0]

\* a view whose option order is rebuilt from the live question, not the snapshot
PaperViewLive(op, s, p, paper, st, tr) ==
    [Reply(op, s, "paper_view") EXCEPT
        !.p = p, !.status = st, !.time_remaining_seconds = tr,
        !.questions = [i \in 1 .. Len(paper.paper_data) |->
                          [paper.paper_data[i] EXCEPT !.options_order = OptionKeys]]]

\* _build_paper_response from the session's paper object
PaperView(op, s, p, paper, st, tr) ==
    [Reply(op, s, "paper_view") EXCEPT
        !.p = p, !.status = st, !.time_remaining_seconds = tr, !.questions = paper.paper_data]

\* _build_result_response
ResultView(op, s, p, result) ==
    [Reply(op, s, "result_view") EXCEPT !.p = p, !.status = EVALUATED, !.result = <<result>>]

ErrorOutcomes ==
    {"exam_not_available", "attempts_exhausted", "insufficient_questions", "not_found",
     "already_submitted", "not_in_paper", "integrity_error", "response_error"}

\* The handler raised: get_db rolls the session back, nothing is persisted.
RolledBack(r, outcome) ==
    /\ last' = Reply(r.op, r.s, outcome)
    /\ UNCHANGED <<exam, assigned, papers, results, session>>

\* a request is accepted while a worker is free
Accepting == BagCardinality(inflight) < capacity

Open(r) == inflight' = inflight (+) SetToBag({r})
Close(r) == inflight' = inflight (-) SetToBag({r})
Move(r, r2) == inflight' = (inflight (-) SetToBag({r})) (+) SetToBag({r2})

\* ---------------------------------------------------------- initial state
\* Question q of the bank carries 2 marks and q negative marks; the odd
\* questions are answered by "A", the even ones by "B".
QuestionRow(q) ==
    [marks |-> 2,
     negative_marks |-> q,
     correct_answer |-> IF q % 2 = 1 THEN <<"A">> ELSE <<"B">>,
     difficulty |-> IF q % 3 = 1 THEN "EASY" ELSE IF q % 3 = 2 THEN "MEDIUM" ELSE "HARD",
     options |-> OptionKeys,
     is_active |-> TRUE]

QuestionBank(n) == [q \in 1 .. n |-> QuestionRow(q)]

\* An Exam row as the admin collaborator schedules it, opening at time 0,
\* worth 2 marks a question and passed with half of them.
ExamRow(end_time, duration_seconds, max_attempts, total_questions, shuffle) ==
    [status |-> SCHEDULED, start_time |-> 0, end_time |-> end_time,
     duration_seconds |-> duration_seconds, max_attempts |-> max_attempts,
     total_questions |-> total_questions, total_marks |-> 2 * total_questions,
     passing_marks |-> total_questions,
     shuffle_questions |-> shuffle, shuffle_options |-> shuffle]

\* what a client may send as selected_answer
SaveChoices == {NULL, <<"A">>, <<"B">>}

InitWith(ex, bank, workers, enrolled, preassigned) ==
    /\ now = 0
    /\ capacity = workers
    /\ exam = ex
    /\ questions = bank
    /\ assigned \in preassigned
    /\ papers = [s \in enrolled |-> <<>>]
    /\ results = <<>>
    /\ session = [is_active |-> TRUE, students_started |-> 0, students_submitted |-> 0]
    /\ inflight = EmptyBag
    /\ last = Reply("none", 0, "none")

\* ------------------------------------------------------------ POST /start
\* generate_paper, lines 87-95: the new row
NewPaper(ex, attempt_number, paper_data) ==
    [attempt_number |-> attempt_number, status |-> NOT_STARTED, started_at |-> <<>>,
     time_remaining_seconds |-> ex.duration_seconds, paper_data |-> paper_data,
     responses |-> NewResponses(paper_data)]

\* a start that sets the timer anew whatever the status
RestartTimer(ex, paper, t) ==
    [paper EXCEPT !.status = IN_PROGRESS, !.started_at = <<t>>,
                  !.time_remaining_seconds = ex.duration_seconds]

\* start_exam, lines 186-192: start the timer of a paper that is NOT_STARTED
StartTimer(ex, paper, t) ==
    IF paper.status = NOT_STARTED
    THEN [paper EXCEPT !.status = IN_PROGRESS, !.started_at = <<t>>,
                       !.time_remaining_seconds = ex.duration_seconds]
    ELSE paper

\* the exam status _validate_exam_available leaves to be committed
CommitExamStatus(ex) ==
    IF ex.status \in {DRAFT, SCHEDULED} THEN [ex EXCEPT !.status = ACTIVE] ELSE ex

\* First step of start_exam: validate the exam, look the latest paper up.  An
\* existing paper that is not terminal is returned at once.
StartExam(s) ==
    LET r == Request("start", s, "count", 0, "", 0, FALSE, now, 0, s \notin assigned)
        p == GetExistingPaper(papers[s])
    IN  /\ Accepting
        /\ IF ~ExamAvailable(exam, now)
           THEN RolledBack(r, "exam_not_available") /\ UNCHANGED inflight
           ELSE IF p # 0 /\ papers[s][p].status \notin TerminalStatuses
           THEN LET paper == StartTimer(exam, papers[s][p], now) IN
                /\ papers' = [papers EXCEPT ![s][p] = paper]
                /\ exam' = CommitExamStatus(exam)
                /\ assigned' = assigned \cup {s}
                /\ last' = PaperView("start", s, p, paper, paper.status,
                                     paper.time_remaining_seconds)
                /\ UNCHANGED <<results, session, inflight>>
           ELSE Open(r) /\ UNCHANGED <<exam, assigned, papers, results, session, last>>
        /\ UNCHANGED <<now, capacity, questions>>

\* a limit that is never reached
NeverExhausted(count, ex) == FALSE

\* generate_paper, lines 67-72: HTTP 400 "Maximum attempts ... reached"
AttemptsExhausted(count, ex) == count >= ex.max_attempts

\* generate_paper, lines 56-76: count the attempts, select the questions.
StartCount(r) ==
    /\ r.op = "start" /\ r.pc = "count"
    /\ LET count == GetAttemptCount(papers[r.s]) IN
       IF r.assign /\ AssignmentConstraintViolated(assigned, r.s)
       THEN RolledBack(r, "integrity_error") /\ Close(r)
       ELSE IF AttemptsExhausted(count, exam)
       THEN RolledBack(r, "attempts_exhausted") /\ Close(r)
       ELSE IF SelectQuestions(exam, questions) = {}
       THEN RolledBack(r, "insufficient_questions") /\ Close(r)
       ELSE /\ Move(r, [r EXCEPT !.pc = "insert", !.attempt = count + 1])
            /\ UNCHANGED <<exam, assigned, papers, results, session, last>>
    /\ UNCHANGED <<now, capacity, questions>>

\* generate_paper, lines 78-114, and the rest of start_exam: insert the paper
\* and its response rows, count the start, start the timer, commit.
StartInsert(r) ==
    /\ r.op = "start" /\ r.pc = "insert"
    /\ Close(r)
    /\ IF \/ r.assign /\ AssignmentConstraintViolated(assigned, r.s)
          \/ AttemptConstraintViolated(papers[r.s], r.attempt)
       THEN RolledBack(r, "integrity_error")
       ELSE \E paper_data \in PaperSnapshots(exam, questions) :
            LET paper == StartTimer(exam, NewPaper(exam, r.attempt, paper_data), now)
                p == Len(papers[r.s]) + 1
            IN  /\ papers' = [papers EXCEPT ![r.s] = Append(@, paper)]
                /\ session' = UpdateSessionStats(session, "started")
                /\ exam' = CommitExamStatus(exam)
                /\ assigned' = assigned \cup {r.s}
                /\ last' = PaperView("start", r.s, p, paper, paper.status,
                                     paper.time_remaining_seconds)
                /\ UNCHANGED results
    /\ UNCHANGED <<now, capacity, questions>>

\* ------------------------------------------------- evaluation in a session
\* a flush that writes the whole loaded row back, its status included
WithLoadedRow(ps, r) ==
    [ps EXCEPT ![r.s][r.p].time_remaining_seconds = r.tr, ![r.s][r.p].status = r.st]

\* the pending UPDATE of time_remaining_seconds of the paper the session loaded
WithTimer(ps, r) ==
    IF r.dirty THEN [ps EXCEPT ![r.s][r.p].time_remaining_seconds = r.tr] ELSE ps

\* the rank orders _calculate_ranks may see once paper q of s has its Result
EvaluationOrders(s, q, t0) ==
    RankOrders(Append(results,
        EvaluatePaper(exam, questions, s, q, papers[s][q].responses, t0).result))

\* an evaluation that commits the status and the scored rows without the Result
EvaluationWithoutResult(ps, s, q, t0, o) ==
    LET ev == EvaluatePaper(exam, questions, s, q, ps[s][q].responses, t0) IN
    [err |-> "",
     papers |-> [ps EXCEPT ![s][q].responses = ev.responses, ![s][q].status = EVALUATED],
     results |-> results,
     session |-> UpdateSessionStats(session, "submitted"),
     result |-> <<ev.result>>]

\* _evaluate_paper on paper q of s: the scored rows, the Result, status EVALUATED, the ranks
Evaluation(ps, s, q, t0, o) ==
    LET ev == EvaluatePaper(exam, questions, s, q, ps[s][q].responses, t0)
        ranked == CalculateRanks(Append(results, ev.result), o)
    IN  [err |-> IF ResultConstraintViolated(results, s, q) THEN "integrity_error" ELSE "",
         papers |-> [ps EXCEPT ![s][q].responses = ev.responses, ![s][q].status = EVALUATED],
         results |-> ranked,
         session |-> UpdateSessionStats(session, "submitted"),
         result |-> <<ranked[Len(ranked)]>>]

\* auto_submit in the session of request r.  The paper is queried again: the
\* row the session already holds keeps the status it was loaded with.
AutoSubmit(r, o) ==
    LET q == GetExistingPaper(papers[r.s])
        st == IF q = r.p THEN r.st ELSE papers[r.s][q].status
        ps == WithTimer(papers, r)
    IN  IF q = 0
        THEN [err |-> "not_found", papers |-> papers, results |-> results,
              session |-> session, result |-> <<>>]
        ELSE IF st \in TerminalStatuses
        THEN IF GetResult(results, r.s, q) # 0
             THEN [err |-> "", papers |-> ps, results |-> results, session |-> session,
                   result |-> <<results[GetResult(results, r.s, q)]>>]
             ELSE [err |-> "already_submitted", papers |-> papers, results |-> results,
                   session |-> session, result |-> <<>>]
        ELSE Evaluation([ps EXCEPT ![r.s][q].time_remaining_seconds = 0], r.s, q, r.t0, o)

AutoSubmitOrders(r) ==
    LET q == GetExistingPaper(papers[r.s]) IN
    IF q = 0 THEN {<<>>} ELSE EvaluationOrders(r.s, q, r.t0)

\* _get_active_paper / the head of get_paper: the latest paper must exist and
\* not be terminal; then _update_time_remaining recomputes from the clock.
LoadPaper(op, s, entries) ==
    LET p == GetExistingPaper(papers[s])
        r == [Request(op, s, "finish", p, "", 0, FALSE, now, 0, FALSE) EXCEPT
                 !.entries = entries]
    IN  /\ Accepting
        /\ IF p = 0
           THEN RolledBack(r, "not_found") /\ UNCHANGED inflight
           ELSE IF papers[s][p].status \in TerminalStatuses
           THEN RolledBack(r, "already_submitted") /\ UNCHANGED inflight
           ELSE LET tr == IF op = "submit"
                          THEN papers[s][p].time_remaining_seconds
                          ELSE UpdateTimeRemaining(exam, papers[s][p], now)
                IN  /\ Open([r EXCEPT !.st = papers[s][p].status, !.tr = tr,
                                      !.dirty = (tr # papers[s][p].time_remaining_seconds)])
                    /\ UNCHANGED <<exam, assigned, papers, results, session, last>>
        /\ UNCHANGED <<now, capacity, questions>>

\* ------------------------------------------------- GET /paper and GET /time
\* response_model=ExamPaperResponse: a ResultResponse lacks its required fields
ResponseModelAccepts(view) == view.outcome = "paper_view"

GetPaper(s) == LoadPaper("resume", s, <<>>)

\* get_paper, lines 222-226, then the route's response model
GetPaperFinish(r) ==
    /\ r.op = "resume" /\ r.pc = "finish"
    /\ Close(r)
    /\ \E o \in AutoSubmitOrders(r) :
        LET out == AutoSubmit(r, o)
            view == IF r.tr <= 0
                    THEN ResultView("resume", r.s, r.p, out.result[1])
                    ELSE PaperView("resume", r.s, r.p, papers[r.s][r.p], r.st, r.tr)
        IN  IF r.tr <= 0 /\ out.err # ""
            THEN RolledBack(r, out.err)
            ELSE IF ~ResponseModelAccepts(view)
            THEN RolledBack(r, "response_error")
            ELSE /\ papers' = WithTimer(papers, r)
                 /\ last' = view
                 /\ UNCHANGED <<exam, assigned, results, session>>
    /\ UNCHANGED <<now, capacity, questions>>

GetRemainingTime(s) == LoadPaper("time", s, <<>>)

\* get_remaining_time, lines 98-102: reads time_remaining_seconds and status of
\* what get_paper returned; a ResultResponse has neither.
GetRemainingTimeFinish(r) ==
    /\ r.op = "time" /\ r.pc = "finish"
    /\ Close(r)
    /\ \E o \in AutoSubmitOrders(r) :
        LET out == AutoSubmit(r, o) IN
        IF r.tr <= 0
        THEN RolledBack(r, IF out.err # "" THEN out.err ELSE "response_error")
        ELSE /\ papers' = WithTimer(papers, r)
             /\ last' = [Reply("time", r.s, "time") EXCEPT
                            !.p = r.p, !.status = r.st, !.time_remaining_seconds = r.tr]
             /\ UNCHANGED <<exam, assigned, results, session>>
    /\ UNCHANGED <<now, capacity, questions>>

\* ---------------------------------------------------------- answer ledger
\* what a client may name as question_id: the bank's ids and one id outside it
SaveQuestionIds == DOMAIN questions \cup {Cardinality(DOMAIN questions) + 1}

SaveEntries == [question_id : SaveQuestionIds, selected_answer : SaveChoices]

RECURSIVE SeqsUpTo(_, _)
SeqsUpTo(S, n) ==
    IF n = 0 THEN {<<>>}
    ELSE SeqsUpTo(S, n - 1) \cup
         {Append(t, x) : t \in {u \in SeqsUpTo(S, n - 1) : Len(u) = n - 1}, x \in S}

\* save_answer, lines 245-246, on the response row of question q
SaveResponse(ps, s, p, entry) ==
    [ps EXCEPT ![s][p].responses[entry.question_id] =
        [@ EXCEPT !.selected_answer = entry.selected_answer,
                  !.is_marked_for_review = FALSE]]

\* a lookup that finds a row for every question id
AlwaysHasResponse(ps, s, p, q) == TRUE

\* _get_response finds a row
HasResponse(ps, s, p, q) == q \in DOMAIN ps[s][p].responses

SaveAnswer(s) == \E entry \in SaveEntries : LoadPaper("save", s, <<entry>>)

\* save_answer, lines 235-257
SaveAnswerFinish(r) ==
    /\ r.op = "save" /\ r.pc = "finish"
    /\ Close(r)
    /\ IF r.tr <= 0
       THEN \E o \in AutoSubmitOrders(r) :
            LET out == AutoSubmit(r, o) IN
            IF out.err # ""
            THEN RolledBack(r, out.err)
            ELSE /\ papers' = out.papers
                 /\ results' = out.results
                 /\ session' = out.session
                 /\ last' = [Reply("save", r.s, "auto_submitted") EXCEPT !.p = r.p]
                 /\ UNCHANGED <<exam, assigned>>
       ELSE LET entry == r.entries[1] IN
            IF ~HasResponse(papers, r.s, r.p, entry.question_id)
            THEN RolledBack(r, "not_in_paper")
            ELSE /\ papers' = SaveResponse(WithTimer(papers, r), r.s, r.p, entry)
                 /\ last' = [Reply("save", r.s, "saved") EXCEPT
                                !.p = r.p, !.time_remaining_seconds = r.tr]
                 /\ UNCHANGED <<exam, assigned, results, session>>
    /\ UNCHANGED <<now, capacity, questions>>

\* save_all_answers, lines 269-276: the loop over the submitted entries
RECURSIVE SaveAll(_, _, _, _)
SaveAll(ps, s, p, entries) ==
    IF entries = <<>> THEN [papers |-> ps, saved_count |-> 0]
    ELSE LET e == Head(entries)
             hit == HasResponse(ps, s, p, e.question_id)
             rest == SaveAll(IF hit THEN SaveResponse(ps, s, p, e) ELSE ps, s, p, Tail(entries))
         IN  [papers |-> rest.papers, saved_count |-> rest.saved_count + (IF hit THEN 1 ELSE 0)]

\* a bulk save of at most n entries arrives
SaveAllAnswersOf(s, n) ==
    \E entries \in SeqsUpTo(SaveEntries, n) : LoadPaper("save_all", s, entries)

SaveAllAnswers(s) == SaveAllAnswersOf(s, MaxBulk)

\* save_all_answers, lines 265-285
SaveAllAnswersFinish(r) ==
    /\ r.op = "save_all" /\ r.pc = "finish"
    /\ Close(r)
    /\ IF r.tr <= 0
       THEN \E o \in AutoSubmitOrders(r) :
            LET out == AutoSubmit(r, o) IN
            IF out.err # ""
            THEN RolledBack(r, out.err)
            ELSE /\ papers' = out.papers
                 /\ results' = out.results
                 /\ session' = out.session
                 /\ last' = [Reply("save_all", r.s, "auto_submitted") EXCEPT !.p = r.p]
                 /\ UNCHANGED <<exam, assigned>>
       ELSE LET out == SaveAll(WithTimer(papers, r), r.s, r.p, r.entries) IN
            /\ papers' = out.papers
            /\ last' = [Reply("save_all", r.s, "saved") EXCEPT
                           !.p = r.p, !.time_remaining_seconds = r.tr,
                           !.saved_count = out.saved_count]
            /\ UNCHANGED <<exam, assigned, results, session>>
    /\ UNCHANGED <<now, capacity, questions>>

\* ------------------------------------------------------------ POST /submit
SubmitExam(s) == LoadPaper("submit", s, <<>>)

\* submit_exam, lines 293-304: SUBMITTED, then _evaluate_paper
SubmitExamFinish(r) ==
    /\ r.op = "submit" /\ r.pc = "finish"
    /\ Close(r)
    /\ \E o \in EvaluationOrders(r.s, r.p, r.t0) :
        LET out == Evaluation([papers EXCEPT ![r.s][r.p].status = SUBMITTED],
                              r.s, r.p, r.t0, o)
        IN  IF out.err # ""
            THEN RolledBack(r, out.err)
            ELSE /\ papers' = out.papers
                 /\ results' = out.results
                 /\ session' = out.session
                 /\ last' = ResultView("submit", r.s, r.p, out.result[1])
                 /\ UNCHANGED <<exam, assigned>>
    /\ UNCHANGED <<now, capacity, questions>>

\* --------------------------------------- submit, flush and commit apart
\* submit_exam, lines 293-302, up to its last flush: the session evaluates the
\* paper, ranks the Result rows it can read (the committed ones and its own)
\* and counts the submission on the session row it read.  Nothing of this is
\* visible to other transactions yet.
EvaluateInSession(r) ==
    /\ r.op = "submit" /\ r.pc = "finish"
    /\ \E o \in EvaluationOrders(r.s, r.p, r.t0) :
        LET out == Evaluation([papers EXCEPT ![r.s][r.p].status = SUBMITTED],
                              r.s, r.p, r.t0, o)
        IN  Move(r, [r EXCEPT !.pc = "commit",
                              !.seen = <<[results |-> results, session |-> session,
                                          out |-> out]>>])
    /\ UNCHANGED <<now, capacity, exam, questions, assigned, papers, results, session, last>>

\* the UPDATEs of results.rank the flush emitted: the rows whose rank the
\* session changed, written over the rows as they are committed now
RanksWritten(rs, seen) ==
    [i \in 1 .. Len(rs) |->
        IF i <= Len(seen.results) /\ seen.out.results[i].rank # seen.results[i].rank
        THEN [rs[i] EXCEPT !.rank = seen.out.results[i].rank]
        ELSE rs[i]]

\* the UPDATE of the exam_sessions row: the counters the session changed
SessionWritten(ses, seen) ==
    [ses EXCEPT
        !.students_started =
            IF seen.out.session.students_started # seen.session.students_started
            THEN seen.out.session.students_started ELSE @,
        !.students_submitted =
            IF seen.out.session.students_submitted # seen.session.students_submitted
            THEN seen.out.session.students_submitted ELSE @]

\* get_db, line 72: the commit makes the writes of the session visible
CommitEvaluation(r) ==
    /\ r.op = "submit" /\ r.pc = "commit"
    /\ Close(r)
    /\ LET seen == r.seen[1] IN
       IF ResultConstraintViolated(results, r.s, r.p)
       THEN RolledBack(r, "integrity_error")
       ELSE /\ papers' = [papers EXCEPT ![r.s][r.p] = seen.out.papers[r.s][r.p]]
            /\ results' = Append(RanksWritten(results, seen), seen.out.result[1])
            /\ session' = SessionWritten(session, seen)
            /\ last' = ResultView("submit", r.s, r.p, seen.out.result[1])
            /\ UNCHANGED <<exam, assigned>>
    /\ UNCHANGED <<now, capacity, questions>>

\* ------------------------------------------------- exam listings (reads)
\* get_available_exams_for_student, lines 443-457: a SCHEDULED exam with
\* start_time <= now and end_time >= now is set ACTIVE and committed.
GetAvailableExams ==
    /\ exam.status = SCHEDULED /\ exam.start_time <= now /\ exam.end_time >= now
    /\ exam' = [exam EXCEPT !.status = ACTIVE]
    /\ UNCHANGED <<now, capacity, questions, assigned, papers, results, session, inflight, last>>

\* _auto_update_exam_status on a read of the exam by id: the advanced status is committed
AutoUpdateExamStatus ==
    /\ AdvanceExamStatus(exam, now) # exam.status
    /\ exam' = [exam EXCEPT !.status = AdvanceExamStatus(exam, now)]
    /\ UNCHANGED <<now, capacity, questions, assigned, papers, results, session, inflight, last>>

\* ------------------------------------------------------------------- clock
\* The clock runs until MaxLate seconds after the last paper that can be
\* started has expired.
Tick ==
    /\ now < exam.end_time - 1 + exam.duration_seconds + MaxLate
    /\ now' = now + 1
    /\ UNCHANGED <<capacity, exam, questions, assigned, papers, results, session, inflight, last>>

\* --------------------------------------------------------- specifications
\* the students of the users table: the keys of the papers relation
Students == DOMAIN papers

\* Concurrent request handlers on one attempt of one second: at most
\* MaxInFlight transactions are open at a time.
Init == InitWith(ExamRow(1, 1, 1, 1, FALSE), QuestionBank(1), MaxInFlight, {1}, SUBSET {1})

Next ==
    \/ \E s \in Students : StartExam(s)
    \/ \E s \in Students : GetPaper(s)
    \/ \E s \in Students : SaveAnswer(s)
    \/ \E s \in Students : SubmitExam(s)
    \/ \E r \in BagToSet(inflight) : StartCount(r)
    \/ \E r \in BagToSet(inflight) : StartInsert(r)
    \/ \E r \in BagToSet(inflight) : GetPaperFinish(r)
    \/ \E r \in BagToSet(inflight) : SaveAnswerFinish(r)
    \/ \E r \in BagToSet(inflight) : SubmitExamFinish(r)
    \/ Tick

Spec == Init /\ [][Next]_vars

\* Concurrent start and submit requests on an exam that allows two attempts.
InitStart == InitWith(ExamRow(1, 1, 2, 1, FALSE), QuestionBank(1), MaxInFlight, {1}, SUBSET {1})

NextStart ==
    \/ \E s \in Students : StartExam(s)
    \/ \E s \in Students : SubmitExam(s)
    \/ \E r \in BagToSet(inflight) : StartCount(r)
    \/ \E r \in BagToSet(inflight) : StartInsert(r)
    \/ \E r \in BagToSet(inflight) : SubmitExamFinish(r)
    \/ Tick

SpecStart == InitStart /\ [][NextStart]_vars

\* One request at a time, each handler running to its end before the next
\* arrives, on an exam of two seconds and two attempts that shuffles options.
InitSeq == InitWith(ExamRow(1, 2, 2, 1, TRUE), QuestionBank(1), 1, {1}, {{}})

NextSeq ==
    \/ \E s \in Students : StartExam(s)
    \/ \E s \in Students : GetPaper(s)
    \/ \E s \in Students : GetRemainingTime(s)
    \/ \E s \in Students : SaveAnswer(s)
    \/ \E s \in Students : SaveAllAnswersOf(s, MaxBulkSeq)
    \/ \E s \in Students : SubmitExam(s)
    \/ \E r \in BagToSet(inflight) : StartCount(r)
    \/ \E r \in BagToSet(inflight) : StartInsert(r)
    \/ \E r \in BagToSet(inflight) : GetPaperFinish(r)
    \/ \E r \in BagToSet(inflight) : GetRemainingTimeFinish(r)
    \/ \E r \in BagToSet(inflight) : SaveAnswerFinish(r)
    \/ \E r \in BagToSet(inflight) : SaveAllAnswersFinish(r)
    \/ \E r \in BagToSet(inflight) : SubmitExamFinish(r)
    \/ Tick

SpecSeq == InitSeq /\ [][NextSeq]_vars

\* Evaluation alone: a paper of two questions is in progress with any answers
\* saved, on a bank with any negative marks up to MaxNegativeMarks; it is
\* submitted and evaluated.
EvalBanks ==
    {[q \in 1 .. 2 |-> [QuestionRow(q) EXCEPT !.negative_marks = n[q]]] :
        n \in [1 .. 2 -> 0 .. MaxNegativeMarks]}

\* the answers a response row may hold: also the empty string, and an answer
\* in another case with a blank before it
EvalChoices == SaveChoices \cup {EmptyString, <<" ", "a">>}

InitEvalWith(ex) ==
    /\ now = 0
    /\ capacity = 1
    /\ exam = ex
    /\ questions \in EvalBanks
    /\ assigned = {1}
    /\ \E paper_data \in PaperSnapshots(exam, questions) :
       \E answers \in [1 .. 2 -> EvalChoices] :
          papers = [s \in {1} |->
                       <<[StartTimer(exam, NewPaper(exam, 1, paper_data), 0) EXCEPT
                            !.responses = [q \in 1 .. 2 |->
                                [EmptyResponse EXCEPT !.selected_answer = answers[q]]]]>>]
    /\ results = <<>>
    /\ session = [is_active |-> TRUE, students_started |-> 1, students_submitted |-> 0]
    /\ inflight = EmptyBag
    /\ last = Reply("none", 0, "none")

InitEval == InitEvalWith(CommitExamStatus(ExamRow(1, 1, 1, 2, FALSE)))

NextEval ==
    \/ \E s \in Students : SubmitExam(s)
    \/ \E r \in BagToSet(inflight) : SubmitExamFinish(r)

SpecEval == InitEval /\ [][NextEval]_vars

\* the same evaluation for an exam that asks for no marks to pass
InitPass ==
    InitEvalWith([CommitExamStatus(ExamRow(1, 1, 1, 2, FALSE)) EXCEPT !.passing_marks = 0])

SpecPass == InitPass /\ [][NextEval]_vars

\* Ranking: students 1 and 2 have been evaluated at times 0 or 1 on any answer,
\* student 3 is in progress since time 1 with any answer saved and submits.
AnsweredPaper(ex, bank, answer, started_at) ==
    LET paper_data == CHOOSE d \in PaperSnapshots(ex, bank) : TRUE IN
    [StartTimer(ex, NewPaper(ex, 1, paper_data), started_at) EXCEPT
        !.responses = [q \in SnapshotQuestionIds(paper_data) |->
                          [EmptyResponse EXCEPT !.selected_answer = answer]]]

EvaluatedPaper(ex, bank, s, answer, evaluated_at) ==
    LET paper == AnsweredPaper(ex, bank, answer, 0)
        ev == EvaluatePaper(ex, bank, s, 1, paper.responses, evaluated_at)
    IN  [paper |-> [paper EXCEPT !.responses = ev.responses, !.status = EVALUATED],
         result |-> ev.result]

InitRank ==
    /\ now = 1
    /\ capacity = 1
    /\ exam = CommitExamStatus(ExamRow(2, 2, 1, 1, FALSE))
    /\ questions = QuestionBank(1)
    /\ assigned = {1, 2, 3}
    /\ \E answers \in [{1, 2, 3} -> SaveChoices] : \E at \in [{1, 2} -> {0, 1}] :
        LET e1 == EvaluatedPaper(exam, questions, 1, answers[1], at[1])
            e2 == EvaluatedPaper(exam, questions, 2, answers[2], at[2])
        IN  /\ papers = [s \in {1, 2, 3} |->
                            IF s = 1 THEN <<e1.paper>>
                            ELSE IF s = 2 THEN <<e2.paper>>
                            ELSE <<AnsweredPaper(exam, questions, answers[3], 1)>>]
            /\ \E o \in RankOrders(<<e1.result, e2.result>>) :
                   results = CalculateRanks(<<e1.result, e2.result>>, o)
    /\ session = [is_active |-> TRUE, students_started |-> 3, students_submitted |-> 2]
    /\ inflight = EmptyBag
    /\ last = Reply("none", 0, "none")

NextRank ==
    \/ \E s \in Students : SubmitExam(s)
    \/ \E r \in BagToSet(inflight) : SubmitExamFinish(r)
    \/ Tick

SpecRank == InitRank /\ [][NextRank]_vars

\* The answer ledger alone: a paper of the one question of the bank is in
\* progress for one second; single and bulk saves arrive one at a time.
InitLedger ==
    /\ now = 0
    /\ capacity = 1
    /\ exam = CommitExamStatus(ExamRow(1, 1, 1, 1, FALSE))
    /\ questions = QuestionBank(1)
    /\ assigned = {1}
    /\ \E paper_data \in PaperSnapshots(exam, questions) :
          papers = [s \in {1} |-> <<StartTimer(exam, NewPaper(exam, 1, paper_data), 0)>>]
    /\ results = <<>>
    /\ session = [is_active |-> TRUE, students_started |-> 1, students_submitted |-> 0]
    /\ inflight = EmptyBag
    /\ last = Reply("none", 0, "none")

NextLedger ==
    \/ \E s \in Students : SaveAnswer(s)
    \/ \E s \in Students : SaveAllAnswers(s)
    \/ \E r \in BagToSet(inflight) : SaveAnswerFinish(r)
    \/ \E r \in BagToSet(inflight) : SaveAllAnswersFinish(r)
    \/ Tick

SpecLedger == InitLedger /\ [][NextLedger]_vars

\* An exam window longer than the paper's duration: the window is still open
\* when the timer of a started paper has run out.  One request at a time.
InitLate == InitWith(ExamRow(3, 2, 2, 1, FALSE), QuestionBank(1), 1, {1}, SUBSET {1})

NextLate ==
    \/ \E s \in Students : StartExam(s)
    \/ \E s \in Students : GetPaper(s)
    \/ \E s \in Students : SaveAnswer(s)
    \/ \E s \in Students : SubmitExam(s)
    \/ \E r \in BagToSet(inflight) : StartCount(r)
    \/ \E r \in BagToSet(inflight) : StartInsert(r)
    \/ \E r \in BagToSet(inflight) : GetPaperFinish(r)
    \/ \E r \in BagToSet(inflight) : SaveAnswerFinish(r)
    \/ \E r \in BagToSet(inflight) : SubmitExamFinish(r)
    \/ Tick

SpecLate == InitLate /\ [][NextLate]_vars

\* Exams in every status that open at time 1 and close at time 2, over a bank
\* that holds the two questions a paper needs or only one of them.
InitAvail ==
    \E st \in ExamStatuses, n \in 1 .. 2 :
        InitWith([ExamRow(2, 1, 1, 2, FALSE) EXCEPT !.status = st, !.start_time = 1],
                 QuestionBank(n), MaxInFlight, {1}, SUBSET {1})

NextAvail ==
    \/ \E s \in Students : StartExam(s)
    \/ \E s \in Students : SubmitExam(s)
    \/ \E r \in BagToSet(inflight) : StartCount(r)
    \/ \E r \in BagToSet(inflight) : StartInsert(r)
    \/ \E r \in BagToSet(inflight) : SubmitExamFinish(r)
    \/ Tick

SpecAvail == InitAvail /\ [][NextAvail]_vars

\* Two students whose papers are in progress with any answer saved submit, each
\* in a transaction of its own that evaluates first and commits later.
InitRace ==
    /\ now = 0
    /\ capacity = 2
    /\ exam = CommitExamStatus(ExamRow(1, 2, 1, 1, FALSE))
    /\ questions = QuestionBank(1)
    /\ assigned = {1, 2}
    /\ \E answer \in [1 .. 2 -> SaveChoices] :
          papers = [s \in 1 .. 2 |-> <<AnsweredPaper(exam, questions, answer[s], 0)>>]
    /\ results = <<>>
    /\ session = [is_active |-> TRUE, students_started |-> 2, students_submitted |-> 0]
    /\ inflight = EmptyBag
    /\ last = Reply("none", 0, "none")

NextRace ==
    \/ \E s \in Students : SubmitExam(s)
    \/ \E r \in BagToSet(inflight) : EvaluateInSession(r)
    \/ \E r \in BagToSet(inflight) : CommitEvaluation(r)
    \/ Tick

SpecRace == InitRace /\ [][NextRace]_vars

\* The reads that advance the exam status, beside start: exams in every status
\* that open at time 1 and close at time 2.
NextStatus ==
    \/ \E s \in Students : StartExam(s)
    \/ \E r \in BagToSet(inflight) : StartCount(r)
    \/ \E r \in BagToSet(inflight) : StartInsert(r)
    \/ GetAvailableExams
    \/ AutoUpdateExamStatus
    \/ Tick

SpecStatus == InitAvail /\ [][NextStatus]_vars

\* The student of the one paper in progress keeps sending resume or save
\* requests: time advances, a request that was accepted is handled to its end,
\* and again and again a resume or a save arrives.
NextLive ==
    \/ \E s \in Students : GetPaper(s)
    \/ \E s \in Students : SaveAnswer(s)
    \/ \E r \in BagToSet(inflight) : GetPaperFinish(r)
    \/ \E r \in BagToSet(inflight) : SaveAnswerFinish(r)
    \/ Tick

SpecLive ==
    /\ InitLedger
    /\ [][NextLive]_vars
    /\ WF_vars(Tick)
    /\ WF_vars(\E r \in BagToSet(inflight) : GetPaperFinish(r) \/ SaveAnswerFinish(r))
    /\ SF_vars(\E s \in Students : GetPaper(s) \/ SaveAnswer(s))

\* ------------------------------------------------------------------ claims
\* the rows of one student's papers that exist before and after a step
Kept(s) == 1 .. Len(papers[s])

\* C1: a paper's stored snapshot is never modified by any operation, and every
\* paper view that start, resume, save, bulk save or remaining_time lead to
\* shows the student's current paper with exactly the stored question order
\* and option order.
C1_ViewIsSnapshot ==
    last.outcome = "paper_view" =>
        /\ last.p = GetExistingPaper(papers[last.s])
        /\ last.questions = papers[last.s][last.p].paper_data

C1_SnapshotKept ==
    \A s \in Students :
        /\ Len(papers'[s]) >= Len(papers[s])
        /\ \A i \in Kept(s) : papers'[s][i].paper_data = papers[s][i].paper_data

C1_SnapshotImmutable == []C1_ViewIsSnapshot /\ [][C1_SnapshotKept]_vars

\* a resume shows the shuffled option order of a paper that has a saved answer
C1_Witness ==
    /\ last.op = "resume" /\ last.outcome = "paper_view"
    /\ last.questions[1].options_order = <<"B", "A">>
    /\ papers[1][last.p].responses[1].selected_answer # NULL
    /\ papers[1][last.p].time_remaining_seconds < exam.duration_seconds

\* C2: there is at most one Result per paper in every committed state, also
\* when submits and expiry-triggered auto-submits of one paper overlap.
C2_OneResultPerPaper ==
    \A i, j \in 1 .. Len(results) :
        (results[i].student_id = results[j].student_id
            /\ results[i].paper_id = results[j].paper_id) => i = j

\* an auto-submit or a submit lost against the evaluation committed before it
C2_Witness ==
    /\ last.op \in {"save", "submit"}
    /\ last.outcome = "integrity_error"
    /\ Len(results) = 1
    /\ papers[1][1].status = EVALUATED

\* C3: the papers of one student carry the attempt numbers 1..k, each new
\* paper taking the number of existing papers plus one.
C3_AttemptNumbers ==
    \A s \in Students : \A i \in 1 .. Len(papers[s]) : papers[s][i].attempt_number = i

\* a second attempt exists after a concurrent start of it was refused
C3_Witness ==
    /\ Len(papers[1]) = 2
    /\ last.op = "start" /\ last.outcome = "integrity_error"

\* C4 (as stated): a start request that loses on the attempt uniqueness
\* constraint returns the winner's paper instead of an error.
C4_LoserGetsWinnersPaper ==
    [][\A r \in BagToSet(inflight) :
          (StartInsert(r) /\ AttemptConstraintViolated(papers[r.s], r.attempt)) =>
              /\ last'.outcome = "paper_view"
              /\ last'.p = GetExistingPaper(papers'[r.s])]_vars

\* C5: while a paper is IN_PROGRESS its persisted time_remaining_seconds never
\* increases, and every request that recomputes it persists
\* max(0, duration_seconds - (server time of the request - started_at)).
C5_NonIncreasing ==
    \A s \in Students : \A i \in Kept(s) :
        (papers[s][i].status = IN_PROGRESS /\ papers'[s][i].status = IN_PROGRESS) =>
            papers'[s][i].time_remaining_seconds <= papers[s][i].time_remaining_seconds

C5_Recomputed ==
    \A r \in BagToSet(inflight) :
        (/\ inflight' = inflight (-) SetToBag({r})
         /\ r.op \in {"resume", "time", "save", "save_all"}
         /\ last'.outcome \in {"paper_view", "time", "saved"}
         /\ papers'[r.s][r.p].status = IN_PROGRESS) =>
            LET left == exam.duration_seconds - (r.t0 - papers'[r.s][r.p].started_at[1])
            IN  /\ papers'[r.s][r.p].time_remaining_seconds = (IF left > 0 THEN left ELSE 0)
                /\ last'.time_remaining_seconds = papers'[r.s][r.p].time_remaining_seconds

C5_TimeRemaining == [][C5_NonIncreasing /\ C5_Recomputed]_vars

\* remaining_time has persisted one second left of the two
C5_Witness ==
    /\ last.op = "time" /\ last.outcome = "time"
    /\ last.time_remaining_seconds = 1
    /\ papers[1][last.p].status = IN_PROGRESS
    /\ papers[1][last.p].time_remaining_seconds = 1

\* C6 (as stated): resume on an IN_PROGRESS paper whose time is up returns a
\* result view and leaves the paper persisted as AUTO_SUBMITTED.
C6_ResumeExpired ==
    [][\A r \in BagToSet(inflight) :
          (/\ r.op = "resume" /\ r.st = IN_PROGRESS
           /\ now - papers[r.s][r.p].started_at[1] >= exam.duration_seconds
           /\ r.tr <= 0
           /\ GetPaperFinish(r)) =>
              /\ last'.outcome = "result_view"
              /\ papers'[r.s][r.p].status = AUTO_SUBMITTED]_vars

\* C7: a paper's status only moves forward along NOT_STARTED -> IN_PROGRESS ->
\* {SUBMITTED | AUTO_SUBMITTED} -> EVALUATED, and EVALUATED is final.
C7_Forward ==
    \A s \in Students :
        /\ Len(papers'[s]) >= Len(papers[s])
        /\ \A i \in Kept(s) :
            /\ StatusRank(papers'[s][i].status) >= StatusRank(papers[s][i].status)
            /\ papers[s][i].status = EVALUATED => papers'[s][i].status = EVALUATED

C7_StatusForward == [][C7_Forward]_vars

\* a resume loaded before the evaluation completes after it
C7_Witness ==
    /\ papers[1] # <<>>
    /\ papers[1][1].status = EVALUATED
    /\ last.op = "resume" /\ last.outcome = "paper_view" /\ last.status = IN_PROGRESS

\* C8 (as stated): submit on a paper that is already EVALUATED returns the
\* Result of the first submission and creates no second Result.
C8_ResubmitReturnsResult ==
    [][\A s \in Students :
          LET p == GetExistingPaper(papers[s]) IN
          (/\ p # 0
           /\ papers[s][p].status = EVALUATED
           /\ SubmitExam(s)) =>
              /\ last'.outcome = "result_view"
              /\ last'.result = <<results[GetResult(results, s, p)]>>
              /\ results' = results]_vars

\* C9: a start that finds the latest paper terminal and max_attempts papers
\* fails with AttemptsExhausted and creates nothing, and a student never has
\* more than max_attempts papers, also when start requests overlap.
C9_AtMostMaxAttempts == \A s \in Students : Len(papers[s]) <= exam.max_attempts

C9_Exhausted ==
    \A r \in BagToSet(inflight) :
        LET p == GetExistingPaper(papers[r.s]) IN
        (/\ StartCount(r)
         /\ ~(r.assign /\ r.s \in assigned)
         /\ p # 0
         /\ papers[r.s][p].status \in TerminalStatuses
         /\ Len(papers[r.s]) >= exam.max_attempts) =>
            /\ last' = Reply("start", r.s, "attempts_exhausted")
            /\ papers' = papers

C9_AttemptsExhausted == []C9_AtMostMaxAttempts /\ [][C9_Exhausted]_vars

\* both attempts are used up and a further start was refused
C9_Witness ==
    /\ last.op = "start" /\ last.outcome = "attempts_exhausted"
    /\ Len(papers[1]) = exam.max_attempts
    /\ exam.max_attempts = 2

\* C10: the marks_obtained of every Result is the sum of the marks of the
\* correct answers minus the negative marks of the wrong ones, floored at 0.
C10_MarksFloored ==
    \A i \in 1 .. Len(results) :
        LET rows == papers[results[i].student_id][results[i].paper_id].responses
            right == {q \in DOMAIN rows : rows[q].is_correct = "true"}
            wrong == {q \in DOMAIN rows : rows[q].is_correct = "false"}
            sum == SumOver(right, [q \in right |-> questions[q].marks])
                   - SumOver(wrong, [q \in wrong |-> questions[q].negative_marks])
        IN  /\ results[i].marks_obtained = (IF sum > 0 THEN sum ELSE 0)
            /\ results[i].marks_obtained >= 0

\* one answer right, one wrong, and the penalty larger than the gain
C10_Witness ==
    \E i \in 1 .. Len(results) :
        /\ results[i].correct = 1 /\ results[i].wrong = 1
        /\ results[i].marks_obtained = 0
        /\ \E q \in DOMAIN questions : questions[q].negative_marks > 2

\* C11: evaluation classifies every response once: a null or empty answer
\* stays without correctness, earns 0 and is not attempted; any other answer
\* is attempted and either correct (+marks) or wrong (-negative_marks); so
\* attempted = correct + wrong and attempted <= number of paper questions.
C11_Classified ==
    \A i \in 1 .. Len(results) :
        LET paper == papers[results[i].student_id][results[i].paper_id]
            rows == paper.responses
            blank == {q \in DOMAIN rows : rows[q].selected_answer \in {NULL, EmptyString}}
            right == {q \in DOMAIN rows : rows[q].is_correct = "true"}
            wrong == {q \in DOMAIN rows : rows[q].is_correct = "false"}
        IN  /\ \A q \in blank : rows[q].is_correct = "null" /\ rows[q].marks_obtained = <<0>>
            /\ (DOMAIN rows) \ blank = right \cup wrong
            /\ \A q \in right : rows[q].marks_obtained = <<questions[q].marks>>
            /\ \A q \in wrong : rows[q].marks_obtained = <<0 - questions[q].negative_marks>>
            /\ results[i].attempted = Cardinality((DOMAIN rows) \ blank)
            /\ results[i].correct = Cardinality(right)
            /\ results[i].wrong = Cardinality(wrong)
            /\ results[i].attempted = results[i].correct + results[i].wrong
            /\ results[i].attempted <= Len(paper.paper_data)

\* one row with the empty string left unattempted beside one answered right
\* in lower case with a leading blank
C11_Witness ==
    \E i \in 1 .. Len(results) :
        LET rows == papers[results[i].student_id][results[i].paper_id].responses IN
        /\ rows[2].selected_answer = EmptyString /\ rows[2].is_correct = "null"
        /\ rows[1].selected_answer = <<" ", "a">> /\ rows[1].is_correct = "true"
        /\ results[i].attempted = 1

\* C12: after the rank calculation the ranks of the exam's N Results are
\* exactly 1..N without duplicates, more marks_obtained means a smaller rank,
\* and of two Results with equal marks the one evaluated earlier has the
\* smaller rank.
C12_Ranks ==
    LET N == Len(results) IN
    /\ {results[i].rank : i \in 1 .. N} = 1 .. N
    /\ \A i, j \in 1 .. N :
        /\ results[i].marks_obtained > results[j].marks_obtained =>
               results[i].rank < results[j].rank
        /\ (results[i].marks_obtained = results[j].marks_obtained
               /\ results[i].evaluated_at < results[j].evaluated_at) =>
               results[i].rank < results[j].rank

\* three Results: the last one inserted ties on marks with an earlier row that
\* was evaluated before it, and both outrank the remaining row
C12_Witness ==
    /\ Len(results) = 3
    /\ \E i, j \in 1 .. 2 :
        /\ results[3].marks_obtained = results[i].marks_obtained
        /\ results[i].evaluated_at < results[3].evaluated_at
        /\ results[i].rank = 1 /\ results[3].rank = 2 /\ results[j].rank = 3
        /\ results[j].marks_obtained < results[3].marks_obtained

\* C13 (as stated): remaining_time on an IN_PROGRESS paper whose time is up
\* answers with the status after submission, and the paper is persisted
\* submitted together with its Result.
C13_TimeExpired ==
    [][\A r \in BagToSet(inflight) :
          (/\ r.op = "time" /\ r.st = IN_PROGRESS
           /\ r.t0 - papers[r.s][r.p].started_at[1] >= exam.duration_seconds
           /\ GetRemainingTimeFinish(r)) =>
              /\ last'.outcome = "time"
              /\ last'.status \in TerminalStatuses
              /\ papers'[r.s][r.p].status \in TerminalStatuses
              /\ GetResult(results', r.s, r.p) # 0]_vars

\* C14 (as stated): start on an existing IN_PROGRESS paper recomputes the
\* timer, so it never answers with a paper view in status IN_PROGRESS for a
\* paper whose elapsed time has reached the duration.
C14_StartExpired ==
    [][\A s \in Students :
          LET p == GetExistingPaper(papers[s]) IN
          (/\ p # 0
           /\ papers[s][p].status = IN_PROGRESS
           /\ now - papers[s][p].started_at[1] >= exam.duration_seconds
           /\ StartExam(s)) =>
              ~(last'.outcome = "paper_view" /\ last'.status = IN_PROGRESS)]_vars

\* C15: save_answer and save_all_answers on a paper whose time is up apply none
\* of the submitted answers: the request auto-submits, reports auto_submitted,
\* and the paper is evaluated on exactly the answers stored before the request.
C15_Expired(r) ==
    /\ r.op \in {"save", "save_all"} /\ r.st = IN_PROGRESS
    /\ r.t0 - papers[r.s][r.p].started_at[1] >= exam.duration_seconds
    /\ papers[r.s][r.p].status = IN_PROGRESS
    /\ SaveAnswerFinish(r) \/ SaveAllAnswersFinish(r)

C15_NoneApplied(r) ==
    LET before == papers[r.s][r.p].responses
        after == papers'[r.s][r.p].responses
        ev == EvaluatePaper(exam, questions, r.s, r.p, before, r.t0)
        res == results'[GetResult(results', r.s, r.p)]
    IN  /\ last'.outcome = "auto_submitted"
        /\ DOMAIN after = DOMAIN before
        /\ \A q \in DOMAIN before : after[q].selected_answer = before[q].selected_answer
        /\ after = ev.responses
        /\ papers'[r.s][r.p].status = EVALUATED
        /\ papers'[r.s][r.p].time_remaining_seconds = 0
        /\ GetResult(results, r.s, r.p) = 0 /\ GetResult(results', r.s, r.p) # 0
        /\ [res EXCEPT !.rank = 0] = ev.result

C15_ExpiredSaveAutoSubmits ==
    [][\A r \in BagToSet(inflight) : C15_Expired(r) => C15_NoneApplied(r)]_vars

\* an expired bulk save was answered auto_submitted and the paper was
\* evaluated on the one answer saved in time
C15_Witness ==
    /\ last.op = "save_all" /\ last.outcome = "auto_submitted"
    /\ papers[1][1].status = EVALUATED
    /\ \E q \in DOMAIN papers[1][1].responses :
          papers[1][1].responses[q].selected_answer \notin {NULL, EmptyString}
    /\ Len(results) = 1 /\ results[1].attempted = 1

\* C16: a save that names a question id without a response row in the paper
\* changes no response row and creates none: save_answer fails with NotInPaper,
\* save_all_answers skips the entry and reports as saved_count the number of
\* entries that matched a row.
C16_Single(r) ==
    (/\ r.op = "save" /\ r.tr > 0
     /\ r.entries[1].question_id \notin DOMAIN papers[r.s][r.p].responses
     /\ SaveAnswerFinish(r)) =>
        /\ last'.outcome = "not_in_paper"
        /\ papers' = papers

C16_Bulk(r) ==
    LET rows == papers[r.s][r.p].responses
        matched == {i \in 1 .. Len(r.entries) : r.entries[i].question_id \in DOMAIN rows}
        named == {r.entries[i].question_id : i \in matched}
    IN  (r.op = "save_all" /\ r.tr > 0 /\ SaveAllAnswersFinish(r)) =>
            /\ last'.outcome = "saved"
            /\ last'.saved_count = Cardinality(matched)
            /\ DOMAIN papers'[r.s][r.p].responses = DOMAIN rows
            /\ \A q \in (DOMAIN rows) \ named : papers'[r.s][r.p].responses[q] = rows[q]
            /\ Len(papers'[r.s]) = Len(papers[r.s])

C16_UnknownQuestionSkipped ==
    [][\A r \in BagToSet(inflight) : C16_Single(r) /\ C16_Bulk(r)]_vars

\* a single save of a question outside the paper was refused while the paper
\* is IN_PROGRESS and holds an answer saved before
C16_Witness ==
    /\ last.op = "save" /\ last.outcome = "not_in_paper"
    /\ papers[1][1].status = IN_PROGRESS
    /\ \E q \in DOMAIN papers[1][1].responses :
          papers[1][1].responses[q].selected_answer # NULL

\* C17: start fails with ExamNotAvailable whenever the exam, after the lazy
\* status advancement, is neither scheduled nor active or the server time is
\* outside [start_time, end_time]; and a start that fails, for whatever
\* reason, persists no paper, no response rows and no other change.
C17_Unavailable ==
    \A s \in Students :
        (/\ StartExam(s)
         /\ \/ AdvanceExamStatus(exam, now) \notin {SCHEDULED, ACTIVE}
            \/ now < exam.start_time
            \/ now > exam.end_time) =>
            last'.outcome = "exam_not_available"

C17_FailedStart ==
    /\ last'.op = "start" /\ last'.outcome \in ErrorOutcomes
    /\ \/ \E s \in Students : StartExam(s)
       \/ \E r \in BagToSet(inflight) : StartCount(r) \/ StartInsert(r)

C17_StartFailsClean ==
    [][/\ C17_Unavailable
       /\ C17_FailedStart => UNCHANGED <<exam, assigned, papers, results, session>>]_vars

\* a start that found too few questions left the exam SCHEDULED and the student
\* unassigned, although the handler had set ACTIVE and inserted the assignment
C17_Witness ==
    /\ last.op = "start" /\ last.outcome = "insufficient_questions"
    /\ exam.status = SCHEDULED /\ now >= exam.start_time
    /\ assigned = {}
    /\ papers[1] = <<>>

\* C18: in every committed state a paper is EVALUATED exactly when a Result
\* row exists for it: manual submit and auto-submit commit the status and the
\* Result together or not at all.
C18_EvaluatedIffResult ==
    \A s \in Students : \A i \in Kept(s) :
        papers[s][i].status = EVALUATED <=> GetResult(results, s, i) # 0

\* an expired save auto-submitted the paper: EVALUATED and its Result are both there
C18_Witness ==
    /\ last.op = "save" /\ last.outcome = "auto_submitted"
    /\ papers[1] # <<>> /\ papers[1][1].status = EVALUATED
    /\ GetResult(results, 1, 1) # 0
    /\ inflight # EmptyBag

\* C19: the snapshot of every paper lists pairwise distinct question ids, and
\* the paper has exactly one response row for each of them and none for any
\* other question; a paper is never persisted without its response rows.
C19_RowsMatchSnapshot ==
    \A s \in Students : \A i \in Kept(s) :
        LET paper_data == papers[s][i].paper_data IN
        /\ \A j, k \in 1 .. Len(paper_data) :
              j # k => paper_data[j].question_id # paper_data[k].question_id
        /\ DOMAIN papers[s][i].responses = SnapshotQuestionIds(paper_data)
        /\ Cardinality(DOMAIN papers[s][i].responses) = Len(paper_data)

\* a paper of two questions drawn in the order 2, 1 with its two response rows
C19_Witness ==
    /\ papers[1] # <<>>
    /\ Len(papers[1][1].paper_data) = 2
    /\ papers[1][1].paper_data[1].question_id = 2
    /\ papers[1][1].paper_data[2].question_id = 1
    /\ DOMAIN papers[1][1].responses = {1, 2}
    /\ last.op = "start" /\ last.outcome = "paper_view"

\* C20 (as stated): submit goes through the timer first, so a submit on an
\* IN_PROGRESS paper whose time is up is not recorded as a manual submission
\* but takes the auto-submit path, which sets time_remaining_seconds to 0.
C20_SubmitExpired ==
    [][\A r \in BagToSet(inflight) :
          (/\ r.op = "submit" /\ r.st = IN_PROGRESS
           /\ r.t0 - papers[r.s][r.p].started_at[1] >= exam.duration_seconds
           /\ SubmitExamFinish(r)
           /\ last'.outcome = "result_view") =>
              \E o \in AutoSubmitOrders(r) :
                  LET out == AutoSubmit([r EXCEPT !.tr = 0, !.dirty = TRUE], o) IN
                  /\ papers' = out.papers
                  /\ papers'[r.s][r.p].time_remaining_seconds = 0]_vars

\* C21 (as stated): in every Result is_passed is true exactly when the stored,
\* floored marks_obtained reaches the exam's passing_marks; with passing_marks
\* 0 a paper with a negative raw total is recorded as passed.
C21_PassedOnStoredMarks ==
    \A i \in 1 .. Len(results) :
        results[i].is_passed <=> results[i].marks_obtained >= exam.passing_marks

\* C22 (as stated): in every Result the percentage is computed from the
\* stored, floored marks_obtained, so it is never negative and is 0 whenever
\* marks_obtained is 0.
C22_PercentageOfStoredMarks ==
    \A i \in 1 .. Len(results) :
        /\ results[i].percentage = Percentage(results[i].marks_obtained, exam)
        /\ results[i].percentage >= 0
        /\ results[i].marks_obtained = 0 => results[i].percentage = 0

\* C23 (as stated): when papers of different students are evaluated in
\* concurrent transactions, then once all have committed the ranks of the
\* Results are exactly 1..N without duplicates, as one recomputation over all
\* N Results would assign them.
C23_RanksAfterConcurrentEvaluation ==
    inflight = EmptyBag =>
        /\ {results[i].rank : i \in 1 .. Len(results)} = 1 .. Len(results)
        /\ results \in {CalculateRanks(results, o) : o \in RankOrders(results)}

\* C24 (as stated): auto_submit for a paper that is already terminal is a
\* no-op that changes no paper, response or Result and returns the existing
\* Result instead of an error, also when two expiry detections race.
C24_AutoSubmitIdempotent ==
    [][\A r \in BagToSet(inflight) :
          (/\ r.op = "save" /\ r.tr <= 0
           /\ papers[r.s][r.p].status \in TerminalStatuses
           /\ GetResult(results, r.s, r.p) # 0
           /\ SaveAnswerFinish(r)) =>
              /\ last'.outcome \notin ErrorOutcomes
              /\ papers' = papers /\ results' = results]_vars

\* C25 (as stated): every automatic change of the exam status is one of
\* draft/scheduled -> completed at now >= end_time, draft/scheduled -> active
\* at start_time <= now < end_time, active -> completed at now >= end_time; no
\* read sets an exam ACTIVE at now >= end_time, and a COMPLETED or CANCELLED
\* exam is never changed.
C25_Transition ==
    exam'.status # exam.status =>
        \/ /\ exam.status \in {DRAFT, SCHEDULED} /\ exam'.status = COMPLETED
           /\ now >= exam.end_time
        \/ /\ exam.status \in {DRAFT, SCHEDULED} /\ exam'.status = ACTIVE
           /\ exam.start_time <= now /\ now < exam.end_time
        \/ /\ exam.status = ACTIVE /\ exam'.status = COMPLETED
           /\ now >= exam.end_time

C25_LazyStatus == [][C25_Transition]_vars

\* C26: students_started is incremented exactly once for each paper's first
\* transition to IN_PROGRESS and never by a start that only fetches an existing
\* paper, so after any sequence of operations it equals the number of papers
\* that have been started.
C26_StartedPapers ==
    LET started == {<<s, i>> \in Students \X (1 .. exam.max_attempts) :
                       i <= Len(papers[s]) /\ papers[s][i].status # NOT_STARTED}
    IN  session.students_started = Cardinality(started)

C26_FetchLeavesCounter ==
    \A s \in Students :
        LET p == GetExistingPaper(papers[s]) IN
        (/\ p # 0
         /\ papers[s][p].status = IN_PROGRESS
         /\ StartExam(s)) =>
            /\ last'.outcome = "paper_view" => last'.p = p
            /\ session'.students_started = session.students_started
            /\ Len(papers'[s]) = Len(papers[s])

C26_StartedCountedOnce == []C26_StartedPapers /\ [][C26_FetchLeavesCounter]_vars

\* the second paper was started and counted, a resume a second later stored
\* the time left, and a start after that fetched the paper with that time
C26_Witness ==
    /\ Len(papers[1]) = 2 /\ papers[1][2].status = IN_PROGRESS
    /\ session.students_started = 2
    /\ last.op = "start" /\ last.outcome = "paper_view" /\ last.p = 2
    /\ last.time_remaining_seconds < exam.duration_seconds

\* C27: started_at of a paper is set once, when the paper goes from
\* NOT_STARTED to IN_PROGRESS: a repeated start on the IN_PROGRESS paper and
\* every resume, save and submit leave it unchanged, so no request restarts or
\* extends the countdown.
C27_Kept ==
    \A s \in Students : \A i \in Kept(s) :
        /\ papers[s][i].status # NOT_STARTED => papers[s][i].started_at # <<>>
        /\ papers[s][i].started_at # <<>> =>
              papers'[s][i].started_at = papers[s][i].started_at

C27_StartedAtSetOnce == [][C27_Kept]_vars

\* a resume at time 1 stored the time left, a start after it fetched the paper,
\* an answer is saved, and the paper still counts from time 0
C27_Witness ==
    /\ Len(papers[1]) = 1 /\ papers[1][1].status = IN_PROGRESS
    /\ papers[1][1].started_at = <<0>>
    /\ \E q \in DOMAIN papers[1][1].responses :
          papers[1][1].responses[q].selected_answer # NULL
    /\ last.op = "start" /\ last.outcome = "paper_view" /\ last.p = 1
    /\ last.time_remaining_seconds = 1
    /\ now = 2

\* C28 (as stated): when a save_answer and a submit for the same paper
\* interleave, no answer changes after it has been scored: in every committed
\* state of an EVALUATED paper each response carries the score of the
\* selected_answer stored in the same row, and the Result totals agree with
\* the rows.
C28_ScoresMatchAnswers ==
    \A s \in Students : \A i \in Kept(s) :
        papers[s][i].status = EVALUATED =>
            LET rows == papers[s][i].responses
                ev == EvaluatePaper(exam, questions, s, i, rows, 0)
                res == results[GetResult(results, s, i)]
            IN  /\ \A q \in DOMAIN rows :
                    /\ rows[q].is_correct = ev.responses[q].is_correct
                    /\ rows[q].marks_obtained = ev.responses[q].marks_obtained
                /\ GetResult(results, s, i) # 0 =>
                    /\ res.attempted = ev.result.attempted
                    /\ res.correct = ev.result.correct
                    /\ res.wrong = ev.result.wrong
                    /\ res.marks_obtained = ev.result.marks_obtained

\* C29 (as stated): when different students start or submit concurrently no
\* increment of the session counters is lost: once all requests have committed
\* students_started is the number of papers created and students_submitted the
\* number of papers evaluated.
C29_NoLostIncrement ==
    inflight = EmptyBag =>
        LET all == {<<s, i>> \in Students \X (1 .. exam.max_attempts) : i <= Len(papers[s])}
            evaluated == {x \in all : papers[x[1]][x[2]].status = EVALUATED}
        IN  /\ session.students_started = Cardinality(all)
            /\ session.students_submitted = Cardinality(evaluated)

\* C30 (as stated): once the time of an IN_PROGRESS paper is up, the next
\* resume or save that is handled leaves it EVALUATED with a Result; so while
\* the student keeps sending resume or save requests and time advances, every
\* started paper is eventually EVALUATED.
C30_EventuallyEvaluated ==
    \A s \in {1} :
        (papers[s] # <<>> /\ papers[s][1].status = IN_PROGRESS)
            ~> (papers[s][1].status = EVALUATED /\ GetResult(results, s, 1) # 0)

====
